---- MODULE Spec2Model ----
(***************************************************************************)
(* A model of AVBPayloadSigner (src/src/main.rs): main() and               *)
(* sign_payload(), which re-sign an OTA payload.  The driver walks the     *)
(* PayloadWriter's operations, resolves each data-bearing operation's      *)
(* offset in the original payload, seeks the reader there, and copies the  *)
(* declared number of bytes into the writer chunk by chunk.                *)
(*                                                                         *)
(* Indices (partition index, operation index, file positions) are 0-based  *)
(* as in the Rust code; TLA+ sequences are indexed with +1.                *)
(***************************************************************************)
EXTENDS Integers, Sequences, FiniteSets, TLC

VARIABLES
    pc,                 \* position of main()/sign_payload()
    run,                \* which invocation of the tool this is (1 or 2)
    prev,               \* what the first invocation left behind
    cli,                \* Cli: which passphrase options were supplied
    passphrase_source,  \* PassphraseSource chosen by main
    key,                \* the loaded RsaPrivateKey
    out_file,           \* the output path on disk
    inc_file,           \* the input payload, as opened by File::open
    inc_header,         \* PayloadHeader parsed from the input
    cursor,             \* position of inc_reader in the input
    payload_writer,     \* PayloadWriter: its header copy and its position
    operation,          \* the writer's current operation, as read by the driver
    data_offset,        \* resolved absolute offset of the current operation
    size,               \* copy_n: bytes still to copy
    cancel_signal,      \* the AtomicBool handed to copy_n
    cancel_requested,   \* an outside party (user interrupt) asked to cancel
    result,             \* what sign_payload returned
    printed,            \* what main printed
    err,                \* the error the run ended with
    steps               \* history of the calls made on the reader and writer

vars == <<pc, run, prev, cli, passphrase_source, key, out_file,
          inc_file, inc_header, cursor, payload_writer, operation, data_offset, size,
          cancel_signal, cancel_requested, result, printed, err, steps>>

(***************************************************************************)
(* Bounds of the model.                                                    *)
(***************************************************************************)
MaxPartitions == 2      \* partitions in a manifest
MaxOps == 2             \* operations in a manifest, over all partitions
BufLen == 2             \* copy_n's chunk (scaled down from 16384)
HdrLen == 1             \* bytes of header and manifest before the blob
U64Bits == 3            \* width of the offsets (scaled down from 64)

U64_MAX == 2^U64Bits - 1

(***************************************************************************)
(* Option<u64>.                                                            *)
(***************************************************************************)
None == [some |-> FALSE, val |-> 0]
Some(v) == [some |-> TRUE, val |-> v]

\* Mutant: u64::wrapping_add
WrappingAdd(a, b) == Some((a + b) % (U64_MAX + 1))

\* u64::checked_add
CheckedAdd(a, b) == IF a + b > U64_MAX THEN None ELSE Some(a + b)

Min(a, b) == IF a < b THEN a ELSE b

(***************************************************************************)
(* Input payloads.                                                         *)
(***************************************************************************)
Lengths == {None, Some(0), Some(BufLen + 1)}
Offsets == {None, Some(0), Some(1), Some(U64_MAX)}

\* InstallOperation: a ZERO/DISCARD operation carries neither length nor
\* offset; a data-bearing one carries a length and, normally, an offset.
Operations ==
    {[data_length |-> None, data_offset |-> None]} \cup
    {[data_length |-> l, data_offset |-> d] : l \in Lengths \ {None}, d \in Offsets}

SeqsUpTo(S, n) == UNION {[1..m -> S] : m \in 0..n}

RECURSIVE Sum(_)
Sum(s) == IF s = <<>> THEN 0 ELSE Head(s) + Sum(Tail(s))

\* The operations ops split into partitions of the given sizes.
Split(ops, sizes) ==
    [i \in 1..Len(sizes) |->
        SubSeq(ops, Sum(SubSeq(sizes, 1, i - 1)) + 1, Sum(SubSeq(sizes, 1, i)))]

Manifests ==
    {Split(ops, sizes) :
        <<ops, sizes>> \in
            {x \in SeqsUpTo(Operations, MaxOps) \X SeqsUpTo(0..MaxOps, MaxPartitions) :
                Sum(x[2]) = Len(x[1])}}

Headers == {[blob_offset |-> HdrLen, partitions |-> m] : m \in Manifests}

NoHeader == [blob_offset |-> 0, partitions |-> <<>>]

\* A file on disk: whether it parses as a payload, the header it holds, and
\* its length in bytes.  Its blob region is empty or holds one full copy.
InputFiles ==
    {[valid |-> TRUE, header |-> h, len |-> HdrLen + n] :
        h \in Headers, n \in {0, BufLen + 1}}
    \cup {[valid |-> FALSE, header |-> NoHeader, len |-> HdrLen]}

\* The byte the input holds at absolute position i.
FileByte(i) == 65 + i

\* The n bytes of the input from absolute position at.
FileBytes(at, n) == [i \in 1..n |-> FileByte(at + i - 1)]


(***************************************************************************)
(* clap: the argument groups of Cli.                                       *)
(***************************************************************************)
\* The group each passphrase option is declared in.
ArgGroup(arg) == IF arg = "pass_env_var" THEN "pass" ELSE "passphrase"

\* clap rejects two supplied options only when they share a group.
ClapConflict(env, file) ==
    env /\ file /\ ArgGroup("pass_env_var") = ArgGroup("pass_file")

\* main's choice of the passphrase source.
SelectPassphraseSource(c) ==
    IF c.pass_env_var THEN "EnvVar"
    ELSE IF c.pass_file THEN "File"
    ELSE "Prompt"

(***************************************************************************)
(* PayloadWriter, at its interface.                                        *)
(***************************************************************************)
NoPos == [some |-> FALSE, pi |-> 0, oi |-> 0]
Pos(p, o) == [some |-> TRUE, pi |-> p, oi |-> o]

\* All (partition index, operation index) pairs of a header.
Positions(h) ==
    UNION {{<<p - 1, o - 1>> : o \in 1..Len(h.partitions[p])} :
              p \in 1..Len(h.partitions)}

LexLess(a, b) == a[1] < b[1] \/ (a[1] = b[1] /\ a[2] < b[2])

\* Bytes of data declared by the operations before position x.
BlobSizeBefore(h, x) ==
    LET before == {y \in Positions(h) : LexLess(y, x)}
        RECURSIVE Total(_)
        Total(S) ==
            IF S = {} THEN 0
            ELSE LET y == CHOOSE z \in S : TRUE
                     op == h.partitions[y[1] + 1][y[2] + 1]
                 IN (IF op.data_length.some THEN op.data_length.val ELSE 0)
                    + Total(S \ {y})
    IN Total(before)

\* PayloadWriter::new lays the blob out sequentially in its own copy of the
\* header: every data-bearing operation gets the offset at which its data
\* will sit in the output.  Lengths are kept.
WriterHeader(h) ==
    [h EXCEPT !.partitions =
        [p \in 1..Len(h.partitions) |->
            [o \in 1..Len(h.partitions[p]) |->
                LET op == h.partitions[p][o] IN
                IF op.data_length.some
                THEN [op EXCEPT !.data_offset = Some(BlobSizeBefore(h, <<p - 1, o - 1>>))]
                ELSE op]]]

\* begin_next_operation: the first position after the current one, in
\* manifest order, skipping partitions without operations.
NextPosition(w) ==
    LET later == {x \in Positions(w.header) :
                    ~w.started \/ (w.pos.some /\ LexLess(<<w.pos.pi, w.pos.oi>>, x))}
    IN IF later = {} \/ (w.started /\ ~w.pos.some) THEN NoPos
       ELSE LET x == CHOOSE y \in later : \A z \in later : y = z \/ LexLess(y, z)
            IN Pos(x[1], x[2])

\* partition_index(), operation_index(): Option<usize>.
PartitionIndex(w) == IF w.pos.some THEN Some(w.pos.pi) ELSE None
OperationIndex(w) == IF w.pos.some THEN Some(w.pos.oi) ELSE None

\* operation(): the current operation of the writer's header.
WriterOperation(w) == w.header.partitions[w.pos.pi + 1][w.pos.oi + 1]

\* The serialized header and manifest.
HeaderBytes(h) == [i \in 1..HdrLen |-> Len(h.partitions)]

\* The signature: a deterministic function of the message and the key.
Sign(msg, k) == <<(Sum(msg) + (IF k = "key" THEN 1 ELSE 2)) % 256>>

NoWriter == [header |-> NoHeader, started |-> FALSE, pos |-> NoPos]

(***************************************************************************)
(* History of the calls made on the source reader and on the writer.       *)
(***************************************************************************)
Step(c, p, a, d) == [call |-> c, pos |-> p, at |-> a, data |-> d]

NoFile == [exists |-> FALSE, bytes |-> <<>>]
Closed == [valid |-> FALSE, header |-> NoHeader, len |-> 0]
NoResult == [some |-> FALSE, properties |-> <<>>, metadata_size |-> 0]
NoCli == [pass_env_var |-> FALSE, pass_file |-> FALSE]
NoPrev == [some |-> FALSE, cli |-> NoCli, input |-> Closed, key |-> "none",
           steps |-> <<>>, out |-> <<>>, result |-> NoResult]
NoOp == [data_length |-> None, data_offset |-> None]


(***************************************************************************)
(* The initial state: the tool has just been started.                      *)
(***************************************************************************)
Init ==
    /\ pc = "start"
    /\ run = 1
    /\ prev = NoPrev
    /\ cli = NoCli
    /\ passphrase_source = "unset"
    /\ key = "none"
    /\ out_file \in {NoFile, [exists |-> TRUE, bytes |-> <<0>>]}
    /\ inc_file = Closed
    /\ inc_header = NoHeader
    /\ cursor = 0
    /\ payload_writer = NoWriter
    /\ operation = NoOp
    /\ data_offset = 0
    /\ size = 0
    /\ cancel_signal = FALSE
    /\ cancel_requested = FALSE
    /\ result = NoResult
    /\ printed = NoResult
    /\ err = "none"
    /\ steps = <<>>

\* What a failing step leaves: the error propagates to main, which returns it.
Fail(e) ==
    /\ pc' = "failed"
    /\ err' = e

(***************************************************************************)
(* main, up to the call of sign_payload.                                   *)
(***************************************************************************)
\* Cli::parse().  The second invocation is given the command line of the
\* first.
ParseCli ==
    /\ pc = "start"
    /\ \E env \in BOOLEAN, file \in BOOLEAN :
        /\ cli' = [pass_env_var |-> env, pass_file |-> file]
        /\ prev.some => cli' = prev.cli
        /\ IF ClapConflict(env, file)
           THEN Fail("UsageError")
           ELSE pc' = "passphrase" /\ err' = err
    /\ UNCHANGED <<run, prev, passphrase_source, key, out_file, 
                   inc_file, inc_header, cursor, payload_writer, operation,
                   data_offset, size, cancel_signal, cancel_requested,
                   result, printed, steps>>

\* Mutant: the output is created before the key is read.
StageAfterCreateFirst(stage) ==
    IF stage = "create" THEN "read_key"
    ELSE IF stage = "read_key" THEN "open"
    ELSE "create"

\* The order of main's statements after the passphrase source is chosen:
\* the key is read, then the output is created, then sign_payload runs.
StageAfter(stage) ==
    IF stage = "read_key" THEN "create"
    ELSE IF stage = "create" THEN "open"
    ELSE "read_key"

\* let passphrase_source = ...
ChoosePassphraseSource ==
    /\ pc = "passphrase"
    /\ passphrase_source' = SelectPassphraseSource(cli)
    /\ pc' = StageAfter("passphrase")
    /\ UNCHANGED <<run, prev, cli, key, out_file, inc_file,
                   inc_header, cursor, payload_writer, operation,
                   data_offset, size, cancel_signal, cancel_requested,
                   result, printed, err, steps>>

\* crypto::read_pem_key_file(&cli.key, &passphrase_source)?
ReadKey ==
    /\ pc = "read_key"
    /\ \E ok \in BOOLEAN :
        IF ok
        THEN key' = "key" /\ pc' = StageAfter("read_key") /\ err' = err
        ELSE key' = key /\ Fail("KeyError")
    /\ UNCHANGED <<run, prev, cli, passphrase_source, out_file, 
                   inc_file, inc_header, cursor, payload_writer, operation,
                   data_offset, size, cancel_signal, cancel_requested,
                   result, printed, steps>>

\* Mutant: the output is opened for appending.
FileCreateAppend(f) == [exists |-> TRUE, bytes |-> f.bytes]

\* File::create: the file is created, or truncated when it exists.
FileCreate(f) == [exists |-> TRUE, bytes |-> <<>>]

\* let mut writer = File::create(&cli.output)?
CreateOutput ==
    /\ pc = "create"
    /\ \E ok \in BOOLEAN :
        IF ok
        THEN out_file' = FileCreate(out_file) /\ pc' = StageAfter("create")
             /\ err' = err
        ELSE out_file' = out_file /\ Fail("IoError")
    /\ UNCHANGED <<run, prev, cli, passphrase_source, key, 
                   inc_file, inc_header, cursor, payload_writer, operation,
                   data_offset, size, cancel_signal, cancel_requested,
                   result, printed, steps>>

(***************************************************************************)
(* sign_payload.                                                           *)
(***************************************************************************)
\* File::open(unsigned_payload)?  The second invocation finds the input the
\* first one read.
OpenInput ==
    /\ pc = "open"
    /\ \E ok \in BOOLEAN :
        IF ok
        THEN /\ inc_file' \in (IF prev.some THEN {prev.input} ELSE InputFiles)
             /\ cursor' = 0
             /\ pc' = "parse"
             /\ err' = err
        ELSE /\ inc_file' = inc_file
             /\ cursor' = cursor
             /\ Fail("IoError")
    /\ UNCHANGED <<run, prev, cli, passphrase_source, key, out_file,
                   inc_header, payload_writer, operation,
                   data_offset, size, cancel_signal, cancel_requested,
                   result, printed, steps>>

\* PayloadHeader::from_reader(&mut inc_reader)?  The reader is left after the
\* header and manifest.
ParseHeader ==
    /\ pc = "parse"
    /\ IF inc_file.valid
       THEN /\ inc_header' = inc_file.header
            /\ cursor' = inc_file.header.blob_offset
            /\ pc' = "new_writer"
            /\ err' = err
       ELSE /\ inc_header' = inc_header
            /\ cursor' \in 0..inc_file.len
            /\ Fail("FormatError")
    /\ UNCHANGED <<run, prev, cli, passphrase_source, key, out_file,
                   inc_file, payload_writer, operation,
                   data_offset, size, cancel_signal, cancel_requested,
                   result, printed, steps>>

\* Appending bytes to the output file.
WriteBytes(f, bytes) == [f EXCEPT !.bytes = @ \o bytes]

\* PayloadWriter::new(writer, inc_header.clone(), key.clone())?
NewWriter ==
    /\ pc = "new_writer"
    /\ \E ok \in BOOLEAN :
        IF ok
        THEN /\ payload_writer' = [header |-> WriterHeader(inc_header),
                                   started |-> FALSE, pos |-> NoPos]
             /\ out_file' = WriteBytes(out_file, HeaderBytes(inc_header))
             /\ pc' = "begin"
             /\ err' = err
        ELSE /\ payload_writer' = payload_writer
             /\ out_file' = out_file
             /\ Fail("IoError")
    /\ UNCHANGED <<run, prev, cli, passphrase_source, key, 
                   inc_file, inc_header, cursor, operation, data_offset,
                   size, cancel_signal, cancel_requested, result, printed,
                   steps>>

\* while payload_writer.begin_next_operation()? { ... }
BeginNextOperation ==
    /\ pc = "begin"
    /\ \E ok \in BOOLEAN :
        IF ok
        THEN /\ payload_writer' = [payload_writer EXCEPT
                                      !.started = TRUE,
                                      !.pos = NextPosition(payload_writer)]
             /\ steps' = Append(steps, Step("advance", payload_writer'.pos, 0, <<>>))
             /\ pc' = IF payload_writer'.pos.some THEN "inspect" ELSE "finish"
             /\ err' = err
        ELSE /\ payload_writer' = payload_writer
             /\ steps' = steps
             /\ Fail("IoError")
    /\ UNCHANGED <<run, prev, cli, passphrase_source, key, out_file,
                   inc_file, inc_header, cursor, operation,
                   data_offset, size, cancel_signal, cancel_requested,
                   result, printed>>

\* Mutant: an absent length is not told from a present one.
IsZeroOrDiscardNever(op) == FALSE

\* let Some(data_length) = operation.data_length else { continue; }
IsZeroOrDiscard(op) == ~op.data_length.some

\* Mutant: `break` instead of `continue`.
AfterZeroOrDiscardBreak == "finish"

\* Where `continue` leads: back to the loop condition.
AfterZeroOrDiscard == "begin"

\* partition().unwrap(), operation().unwrap(), and the test of data_length.
InspectOperation ==
    /\ pc = "inspect"
    /\ IF ~payload_writer.pos.some
       THEN operation' = operation /\ Fail("Panic")
       ELSE /\ operation' = WriterOperation(payload_writer)
            /\ err' = err
            /\ pc' = IF IsZeroOrDiscard(operation')
                     THEN AfterZeroOrDiscard ELSE "resolve"
    /\ UNCHANGED <<run, prev, cli, passphrase_source, key, out_file,
                   inc_file, inc_header, cursor,
                   payload_writer, data_offset, size, cancel_signal,
                   cancel_requested, result, printed, steps>>

\* Mutant: the blob offset is not added to the relative offset.
ResolveDataOffsetRelative(h, pi, oi) ==
    h.partitions[pi + 1][oi + 1].data_offset

\* Mutant: a missing offset is read as offset 0.
ResolveDataOffsetOrZero(h, pi, oi) ==
    LET orig_operation == h.partitions[pi + 1][oi + 1]
    IN IF orig_operation.data_offset.some
       THEN CheckedAdd(orig_operation.data_offset.val, h.blob_offset)
       ELSE CheckedAdd(0, h.blob_offset)

\* Mutant: the offset is taken from the writer's operation, not from the
\* original header.
ResolveDataOffsetFromWriter(h, pi, oi) ==
    LET writer_operation == payload_writer.header.partitions[pi + 1][oi + 1]
    IN IF writer_operation.data_offset.some
       THEN CheckedAdd(writer_operation.data_offset.val, h.blob_offset)
       ELSE None

\* orig_operation.data_offset.and_then(|o| o.checked_add(inc_header.blob_offset))
ResolveDataOffset(h, pi, oi) ==
    LET orig_operation == h.partitions[pi + 1][oi + 1]
    IN IF orig_operation.data_offset.some
       THEN CheckedAdd(orig_operation.data_offset.val, h.blob_offset)
       ELSE None

\* Mutant: the two indices are used the wrong way round.
ValidIndexSwapped(h, pi, oi) ==
    /\ pi.some /\ oi.some
    /\ oi.val < Len(h.partitions)
    /\ pi.val < Len(h.partitions[oi.val + 1])

\* Indexing inc_header.manifest.partitions[pi].operations[oi].
ValidIndex(h, pi, oi) ==
    /\ pi.some /\ oi.some
    /\ pi.val < Len(h.partitions)
    /\ oi.val < Len(h.partitions[pi.val + 1])

\* let data_offset = ... .ok_or_else(|| anyhow!("Missing data_offset ..."))?
ResolveOffset ==
    /\ pc = "resolve"
    /\ LET pi == PartitionIndex(payload_writer)
           oi == OperationIndex(payload_writer)
       IN IF ~ValidIndex(inc_header, pi, oi)
          THEN data_offset' = data_offset /\ Fail("Panic")
          ELSE LET r == ResolveDataOffset(inc_header, pi.val, oi.val)
               IN IF r.some
                  THEN data_offset' = r.val /\ pc' = "seek" /\ err' = err
                  ELSE data_offset' = data_offset /\ Fail("MissingOffset")
    /\ UNCHANGED <<run, prev, cli, passphrase_source, key, out_file,
                   inc_file, inc_header, cursor,
                   payload_writer, operation, size, cancel_signal,
                   cancel_requested, result, printed, steps>>

\* Mutant: the seek is relative to where the reader stands.
SeekTargetCurrent(off, cur) == cur + off

\* The target of inc_reader.seek(SeekFrom::Start(data_offset)).
SeekTarget(off, cur) == off

\* inc_reader.seek(SeekFrom::Start(data_offset))?, then the call of copy_n
\* with data_length and a new cancel signal.
SeekSource ==
    /\ pc = "seek"
    /\ \E ok \in BOOLEAN :
        IF ok
        THEN /\ cursor' = SeekTarget(data_offset, cursor)
             /\ steps' = Append(steps, Step("seek", payload_writer.pos, cursor', <<>>))
             /\ size' = operation.data_length.val
             /\ cancel_signal' = FALSE
             /\ pc' = "copy"
             /\ err' = err
        ELSE /\ UNCHANGED <<cursor, steps, size, cancel_signal>>
             /\ Fail("IoError")
    /\ UNCHANGED <<run, prev, cli, passphrase_source, key, out_file,
                   inc_file, inc_header, payload_writer,
                   operation, data_offset, cancel_requested, result, printed>>

\* Mutant: the result of copy_n is dropped.
CopyFailedIgnored(e) == pc' = "begin" /\ err' = err

\* The `?` on the result of copy_n.
CopyFailed(e) == Fail(e)

\* One round of copy_n's loop: check the cancel signal, read a chunk with
\* read_exact, write it with write_all.
CopyChunk ==
    /\ pc = "copy"
    /\ size > 0
    /\ LET to_read == Min(size, BufLen)
       IN IF cancel_signal
          THEN UNCHANGED <<cursor, out_file, size, steps>> /\ CopyFailed("Cancelled")
          ELSE IF cursor + to_read > inc_file.len
          THEN /\ cursor' \in {c \in cursor..(cursor + to_read) :
                                 c = cursor \/ c <= inc_file.len}
               /\ UNCHANGED <<out_file, size, steps>>
               /\ CopyFailed("UnexpectedEof")
          ELSE \E ok \in BOOLEAN :
               IF ok
               THEN /\ cursor' = cursor + to_read
                    /\ out_file' = WriteBytes(out_file, FileBytes(cursor, to_read))
                    /\ steps' = Append(steps, Step("write", payload_writer.pos,
                                                   cursor, FileBytes(cursor, to_read)))
                    /\ size' = size - to_read
                    /\ pc' = "copy"
                    /\ err' = err
               ELSE /\ cursor' = cursor + to_read
                    /\ \E n \in 0..(to_read - 1) :
                         out_file' = WriteBytes(out_file, FileBytes(cursor, n))
                    /\ UNCHANGED <<size, steps>>
                    /\ CopyFailed("IoError")
    /\ UNCHANGED <<run, prev, cli, passphrase_source, key, 
                   inc_file, inc_header, payload_writer, operation,
                   data_offset, cancel_signal, cancel_requested, result,
                   printed>>

\* copy_n returns Ok(()) when nothing is left to copy.
CopyDone ==
    /\ pc = "copy"
    /\ size = 0
    /\ pc' = "begin"
    /\ UNCHANGED <<run, prev, cli, passphrase_source, key, out_file,
                   inc_file, inc_header, cursor,
                   payload_writer, operation, data_offset, size,
                   cancel_signal, cancel_requested, result, printed, err,
                   steps>>

\* Mutant: the result of finish() is dropped.
FinishFailedIgnored(e) == pc' = "print" /\ err' = err

\* The `?` on the result of finish().
FinishFailed(e) == Fail(e)

\* let (_, p, m) = payload_writer.finish()?; Ok((p, m))
Finish ==
    /\ pc = "finish"
    /\ \E ok \in BOOLEAN :
        IF ok
        THEN /\ out_file' = WriteBytes(out_file, Sign(out_file.bytes, key))
             /\ steps' = Append(steps, Step("finalize", payload_writer.pos, 0, <<>>))
             /\ result' = [some |-> TRUE,
                           properties |-> Sign(out_file.bytes, key),
                           metadata_size |-> HdrLen + 1]
             /\ pc' = "print"
             /\ err' = err
        ELSE /\ UNCHANGED <<out_file, steps, result>>
             /\ FinishFailed("SigningError")
    /\ UNCHANGED <<run, prev, cli, passphrase_source, key, 
                   inc_file, inc_header, cursor, payload_writer, operation,
                   data_offset, size, cancel_signal, cancel_requested,
                   printed>>

\* println!("Properties: ..."); println!("Payload_metadata_size: ...")
PrintResult ==
    /\ pc = "print"
    /\ printed' = result
    /\ pc' = "done"
    /\ UNCHANGED <<run, prev, cli, passphrase_source, key, out_file,
                   inc_file, inc_header, cursor,
                   payload_writer, operation, data_offset, size,
                   cancel_signal, cancel_requested, result, err, steps>>

(***************************************************************************)
(* The environment.                                                        *)
(***************************************************************************)
\* Somebody outside the pipeline asks for cancellation while a copy runs.
\* The signal copy_n polls was created in the call itself: nobody else
\* holds it, so the request does not reach it.
ExternalCancel ==
    /\ pc = "copy"
    /\ ~cancel_requested
    /\ cancel_requested' = TRUE
    /\ UNCHANGED <<pc, run, prev, cli, passphrase_source, key, out_file,
                   inc_file, inc_header, cursor,
                   payload_writer, operation, data_offset, size,
                   cancel_signal, result, printed, err, steps>>

\* After a run that succeeded, the tool is started a second time with the
\* same command line: the same input, key and output path.
SecondRun ==
    /\ run = 1
    /\ pc = "done"
    /\ run' = 2
    /\ prev' = [some |-> TRUE, cli |-> cli, input |-> inc_file,
                key |-> key, steps |-> steps, out |-> out_file.bytes,
                result |-> result]
    /\ pc' = "start"
    /\ cli' = NoCli
    /\ passphrase_source' = "unset"
    /\ key' = "none"
    /\ inc_file' = Closed
    /\ inc_header' = NoHeader
    /\ cursor' = 0
    /\ payload_writer' = NoWriter
    /\ operation' = NoOp
    /\ data_offset' = 0
    /\ size' = 0
    /\ cancel_signal' = FALSE
    /\ cancel_requested' = FALSE
    /\ result' = NoResult
    /\ printed' = NoResult
    /\ err' = "none"
    /\ steps' = <<>>
    /\ UNCHANGED out_file

Next ==
    \/ ParseCli
    \/ ChoosePassphraseSource
    \/ ReadKey
    \/ CreateOutput
    \/ OpenInput
    \/ ParseHeader
    \/ NewWriter
    \/ BeginNextOperation
    \/ InspectOperation
    \/ ResolveOffset
    \/ SeekSource
    \/ CopyChunk
    \/ CopyDone
    \/ Finish
    \/ PrintResult
    \/ ExternalCancel

Spec == Init /\ [][Next]_vars

\* Two invocations, one after the other.
NextTwoRuns == Next \/ SecondRun

SpecTwoRuns == Init /\ [][NextTwoRuns]_vars


(***************************************************************************)
(* Reading the history.                                                    *)
(***************************************************************************)
\* The original operation at position x = <<partition index, operation index>>.
OrigOp(x) == inc_header.partitions[x[1] + 1][x[2] + 1]

PosOf(x) == Pos(x[1], x[2])

\* The writer's current position as a pair.
Current == <<payload_writer.pos.pi, payload_writer.pos.oi>>

IsPrefix(a, b) == Len(a) <= Len(b) /\ SubSeq(b, 1, Len(a)) = a

\* The bytes written to the writer while it stood at position x, in order.
RECURSIVE WrittenIn(_, _)
WrittenIn(log, x) ==
    IF log = <<>> THEN <<>>
    ELSE (IF Head(log).call = "write" /\ Head(log).pos = PosOf(x)
          THEN Head(log).data ELSE <<>>) \o WrittenIn(Tail(log), x)

WrittenFor(x) == WrittenIn(steps, x)

\* All bytes written to the writer, in order.
RECURSIVE AllWritten(_)
AllWritten(log) ==
    IF log = <<>> THEN <<>>
    ELSE (IF Head(log).call = "write" THEN Head(log).data ELSE <<>>)
         \o AllWritten(Tail(log))

\* The positions the writer advanced to, in order.
RECURSIVE Advances(_)
Advances(log) ==
    IF log = <<>> THEN <<>>
    ELSE (IF Head(log).call = "advance" /\ Head(log).pos.some
          THEN <<<<Head(log).pos.pi, Head(log).pos.oi>>>> ELSE <<>>)
         \o Advances(Tail(log))

\* The driver is through with the operation at x: the writer advanced to it
\* and a later advance or the finalize followed.
HandledFully(x) ==
    \E i \in 1..Len(steps) :
        /\ steps[i].call = "advance" /\ steps[i].pos = PosOf(x)
        /\ \E j \in (i + 1)..Len(steps) : steps[j].call \in {"advance", "finalize"}

Finalized == \E i \in 1..Len(steps) : steps[i].call = "finalize"

\* The input bytes the operation at x designates, when it has offset and length.
SourceRange(x) ==
    FileBytes(OrigOp(x).data_offset.val + inc_header.blob_offset,
              OrigOp(x).data_length.val)

HasData(x) == OrigOp(x).data_length.some
HasOffset(x) == OrigOp(x).data_offset.some

(***************************************************************************)
(* Claims.                                                                 *)
(***************************************************************************)

\* C1: for every operation with a data length L and a relative offset D, the
\* bytes written to the writer for it are exactly the L bytes the input holds
\* at D + blob_offset: never anything else while the copy runs, all of them
\* once the driver is through with the operation; L is the length of the
\* original manifest; an operation without length gets no bytes; and the
\* output holds the written bytes, in order, right after the header.
C1_ByteFidelity ==
    /\ \A x \in Positions(inc_header) :
        LET written == WrittenFor(x) IN
        /\ (HasData(x) /\ HasOffset(x)) =>
              /\ IsPrefix(written, SourceRange(x))
              /\ HandledFully(x) =>
                    /\ written = SourceRange(x)
                    /\ Len(written) = OrigOp(x).data_length.val
        /\ ~(HasData(x) /\ HasOffset(x)) => written = <<>>
    /\ pc \notin {"failed", "start"} /\ payload_writer.header # NoHeader =>
          LET all == AllWritten(steps)
          IN SubSeq(out_file.bytes, HdrLen + 1, HdrLen + Len(all)) = all

\* C1 witness: a run ended in success after a multi-chunk operation and a
\* second data-bearing operation were both copied.
C1_Witness ==
    /\ pc = "done"
    /\ \E x \in Positions(inc_header), y \in Positions(inc_header) :
        /\ x # y
        /\ HasData(x) /\ OrigOp(x).data_length.val = BufLen + 1
        /\ HasData(y) /\ OrigOp(y).data_length.val = BufLen + 1
        /\ WrittenFor(x) = SourceRange(x)
        /\ WrittenFor(y) = SourceRange(y)


\* C2: the writer's positions are handled in manifest order: the sequence of
\* positions advanced to is strictly increasing lexicographically, skips no
\* position of the manifest, and is complete once the traversal has ended.
C2_ManifestOrder ==
    LET adv == Advances(steps)
    IN /\ \A i \in 1..Len(adv), j \in 1..Len(adv) :
            i < j => LexLess(adv[i], adv[j])
       /\ \A i \in 1..Len(adv) :
            /\ adv[i] \in Positions(inc_header)
            /\ \A x \in Positions(inc_header) :
                 LexLess(x, adv[i]) => \E k \in 1..(i - 1) : adv[k] = x
       /\ (Finalized \/ pc \in {"finish", "print", "done"}) =>
            \A x \in Positions(inc_header) : \E k \in 1..Len(adv) : adv[k] = x

\* C2 witness: a finished run over two partitions with at least two operations.
C2_Witness ==
    /\ pc = "done"
    /\ Len(inc_header.partitions) >= 2
    /\ Len(Advances(steps)) >= 2
    /\ Advances(steps)[1][1] # Advances(steps)[2][1]

\* C3: an operation that declares a length but whose original entry has no
\* offset ends the run with the missing-offset error: no seek and no write is
\* ever made for it, the advance to it is the last call of the run, and
\* finalize is not called.
C3_MissingOffsetFailsFirst ==
    /\ \A i \in 1..Len(steps) :
         LET x == <<steps[i].pos.pi, steps[i].pos.oi>> IN
         (steps[i].pos.some /\ HasData(x) /\ ~HasOffset(x)) =>
            /\ steps[i].call = "advance"
            /\ i = Len(steps)
    /\ (/\ payload_writer.pos.some
        /\ HasData(Current) /\ ~HasOffset(Current)
        /\ pc \notin {"inspect", "resolve"}) =>
            /\ pc = "failed"
            /\ err = "MissingOffset"
            /\ ~Finalized

\* C3 witness: the run failed on an operation without offset after an
\* earlier operation had been copied.
C3_Witness ==
    /\ pc = "failed" /\ err = "MissingOffset"
    /\ HasData(Current) /\ ~HasOffset(Current)
    /\ Len(AllWritten(steps)) > 0

\* C4: once cancellation has been requested from outside during a copy, the
\* run does not go on to finalize and does not end in success.
C4_CancelStopsRun ==
    cancel_requested => (~Finalized /\ pc \notin {"finish", "print", "done"})

\* The input ends before the end of the range of the operation at x.
InputTooShort(x) ==
    /\ HasData(x) /\ HasOffset(x)
    /\ OrigOp(x).data_offset.val + inc_header.blob_offset <= U64_MAX
    /\ inc_file.len < inc_header.blob_offset + OrigOp(x).data_offset.val
                        + OrigOp(x).data_length.val

C6_ZeroDiscardFrame ==
    [][(/\ pc = "inspect"
        /\ payload_writer.pos.some
        /\ ~HasData(Current))
       => (/\ cursor' = cursor
           /\ out_file' = out_file
           /\ steps' = steps
           /\ pc' = "begin")]_vars

\* C6 witness: the writer advanced to an operation without length and then
\* advanced again, with nothing in between.
C6_Witness ==
    \E i \in 1..(Len(steps) - 1) :
        /\ steps[i].call = "advance" /\ steps[i].pos.some
        /\ ~HasData(<<steps[i].pos.pi, steps[i].pos.oi>>)
        /\ steps[i + 1].call = "advance" /\ steps[i + 1].pos.some

\* C7: the run ends in success only with the header parsed, every operation
\* advanced through, every data-bearing operation copied in full and
\* finalize done; a run that failed carries its error, returned nothing and
\* printed nothing; only a successful run prints, and it prints what
\* sign_payload returned.
C7_AllOrNothing ==
    /\ pc = "done" =>
          /\ err = "none"
          /\ inc_file.valid /\ inc_header = inc_file.header
          /\ \A x \in Positions(inc_header) :
                /\ \E i \in 1..Len(steps) :
                      steps[i].call = "advance" /\ steps[i].pos = PosOf(x)
                /\ HasData(x) => Len(WrittenFor(x)) = OrigOp(x).data_length.val
          /\ steps # <<>> /\ steps[Len(steps)].call = "finalize"
          /\ result.some /\ printed = result
    /\ pc = "failed" => (err # "none" /\ ~result.some /\ ~printed.some)
    /\ err # "none" => pc = "failed"
    /\ printed.some => pc = "done"
    /\ result.some => Finalized

\* C7 witness: a failure of the last step, finalize, after data was copied.
C7_Witness ==
    /\ pc = "failed" /\ err = "SigningError"
    /\ Len(AllWritten(steps)) > 0

\* C8: an invocation that supplies both passphrase options is rejected, and
\* the key is not read.
C8_BothOptionsRejected ==
    (cli.pass_env_var /\ cli.pass_file) => (pc = "failed" /\ key = "none")

\* C9: as long as the key is not loaded, no step creates, truncates or
\* writes the output, opens the input, constructs the writer or calls it;
\* a failure to load the key leaves the run without a key, and the run ends
\* there.
C9_KeyErrorBeforeOutput ==
    [][/\ key = "none" =>
            /\ out_file' = out_file
            /\ inc_file' = Closed
            /\ payload_writer' = NoWriter
            /\ steps' = <<>>
       /\ err' = "KeyError" => (key' = "none" /\ pc' = "failed")
       /\ err = "KeyError" => run' # run]_vars

\* C9 witness: the key failed to load while an older output file existed,
\* and the file is untouched.
C9_Witness ==
    /\ pc = "failed" /\ err = "KeyError"
    /\ out_file.exists /\ out_file.bytes # <<>>
    /\ inc_file = Closed /\ steps = <<>>

\* C10: a second run on the same input with the same key makes the same
\* calls as the first, in the same order, for as long as it goes on, and when
\* it succeeds as the first did the two made the same calls, left the same output bytes and returned the same
\* properties and metadata size.
C10_Deterministic ==
    (run = 2 /\ inc_file \in {Closed, prev.input} /\ key \in {"none", prev.key}) =>
        /\ IsPrefix(steps, prev.steps)
        /\ pc = "done" =>
              /\ steps = prev.steps
              /\ out_file.bytes = prev.out
              /\ result = prev.result

\* C10 witness: both runs succeeded on a payload with data.
C10_Witness ==
    /\ run = 2 /\ pc = "done" /\ prev.some
    /\ Len(AllWritten(steps)) > BufLen

\* C11: finalize is called at most once, as the last call of the run and
\* right after an advancement that reported no operation; a run that failed
\* has not called it, and the driver is then past its loop.
C11_FinalizeOnceAtEnd ==
    /\ \A i \in 1..Len(steps) :
         steps[i].call = "finalize" =>
            /\ i = Len(steps)
            /\ i > 1
            /\ steps[i - 1].call = "advance" /\ ~steps[i - 1].pos.some
    /\ Finalized => pc \in {"print", "done"}
    /\ pc = "failed" => ~Finalized

\* C11 witness: finalize was called after operations had been copied.
C11_Witness ==
    /\ Finalized
    /\ Len(steps) > 3
    /\ Len(AllWritten(steps)) > 0

\* C12: every seek of the source goes to the absolute offset of the operation
\* the writer stands at (relative offset + blob_offset); the first write of
\* an operation follows its seek directly and takes its bytes from the seek
\* target, every further write follows the write before it and continues
\* where that one ended; so what is copied is what the input holds from the
\* operation's own offset, wherever the reader stood before.
C12_SeekBeforeEveryCopy ==
    \A i \in 1..Len(steps) :
        LET s == steps[i]
            x == <<s.pos.pi, s.pos.oi>>
        IN /\ s.call = "seek" =>
                /\ s.pos.some /\ HasData(x) /\ HasOffset(x)
                /\ s.at = OrigOp(x).data_offset.val + inc_header.blob_offset
                /\ steps[i - 1].call = "advance" /\ steps[i - 1].pos = s.pos
           /\ s.call = "write" =>
                /\ s.data = FileBytes(s.at, Len(s.data))
                /\ steps[i - 1].pos = s.pos
                /\ \/ steps[i - 1].call = "seek" /\ s.at = steps[i - 1].at
                   \/ /\ steps[i - 1].call = "write"
                      /\ s.at = steps[i - 1].at + Len(steps[i - 1].data)

\* C12 witness: an operation was copied after a seek back to an offset before
\* the place where the copy of an earlier operation had left the reader.
C12_Witness ==
    \E i \in 1..Len(steps), j \in 1..(Len(steps) - 1) :
        /\ i < j
        /\ steps[i].call = "write"
        /\ steps[j].call = "seek"
        /\ steps[j].at < steps[i].at + Len(steps[i].data)
        /\ steps[j + 1].call = "write"

\* C13: the parsed header stays what was parsed from the input while the
\* writer holds its own, re-laid-out copy; and the offset the driver seeks to
\* and copies from is the relative offset of the parsed header's operation at
\* the writer's position plus the parsed header's blob_offset, whatever
\* offsets the writer's copy holds.
C13_OriginalHeaderUsed ==
    /\ inc_header # NoHeader => inc_header = inc_file.header
    /\ payload_writer # NoWriter =>
          /\ inc_header = inc_file.header
          /\ payload_writer.header = WriterHeader(inc_file.header)
    /\ pc \in {"seek", "copy"} =>
          LET parsed == inc_file.header.partitions[payload_writer.pos.pi + 1]
                                                 [payload_writer.pos.oi + 1]
          IN /\ parsed.data_offset.some
             /\ data_offset = parsed.data_offset.val + inc_file.header.blob_offset

\* C13 witness: a copy is under way for an operation whose offset in the
\* writer's copy differs from the one in the parsed header.
C13_Witness ==
    /\ pc = "copy"
    /\ size < operation.data_length.val
    /\ WriterOperation(payload_writer).data_offset # OrigOp(Current).data_offset

\* C14: no run ends in a panic: whenever the driver is about to query the
\* writer's position, the last call was an advancement that reported an
\* operation, the writer stands at it, and its (partition index, operation
\* index) is a position of the parsed manifest.
C14_NoPanic ==
    /\ err # "Panic"
    /\ pc \in {"inspect", "resolve"} =>
          /\ steps # <<>>
          /\ steps[Len(steps)].call = "advance"
          /\ steps[Len(steps)].pos = payload_writer.pos
          /\ payload_writer.pos.some
          /\ Current \in Positions(inc_header)

\* C14 witness: the driver resolves the offset of the second operation of a
\* partition that comes after an empty one.
C14_Witness ==
    /\ pc = "resolve"
    /\ payload_writer.pos.pi = 1 /\ payload_writer.pos.oi = 1
    /\ inc_header.partitions[1] = <<>>

\* The relative offset of the operation at x plus blob_offset does not fit
\* the unsigned range.
OffsetOverflows(x) ==
    /\ HasData(x) /\ HasOffset(x)
    /\ OrigOp(x).data_offset.val + inc_header.blob_offset > U64_MAX

\* C15: the source is never sought for an operation whose absolute offset
\* overflows, and never to a wrapped sum: every seek target is the full sum
\* and fits the range; when the driver has resolved such an operation the
\* run has failed with the missing-offset error, the advance to it being the
\* last call.
C15_NoWrapAround ==
    /\ \A i \in 1..Len(steps) :
         LET x == <<steps[i].pos.pi, steps[i].pos.oi>> IN
         /\ steps[i].call = "seek" =>
               /\ steps[i].at = OrigOp(x).data_offset.val + inc_header.blob_offset
               /\ steps[i].at <= U64_MAX
         /\ (steps[i].pos.some /\ OffsetOverflows(x)) =>
               (steps[i].call = "advance" /\ i = Len(steps))
    /\ (/\ payload_writer.pos.some
        /\ OffsetOverflows(Current)
        /\ pc \notin {"inspect", "resolve"}) =>
            /\ pc = "failed"
            /\ err = "MissingOffset"

\* C15 witness: the run failed on an operation whose offset is present but
\* overflows with blob_offset, after an earlier operation had been copied.
C15_Witness ==
    /\ pc = "failed" /\ err = "MissingOffset"
    /\ OffsetOverflows(Current)
    /\ OrigOp(Current).data_offset.val = U64_MAX
    /\ Len(AllWritten(steps)) > 0

====
